---- MODULE Spec2Model ----
(***************************************************************************)
(* Model of the generator source of numaflow-core                          *)
(* (rust/numaflow-core/src/source/generator.rs): the StreamGenerator       *)
(* stream (a windowed quota scheduler driven by a tokio Interval with      *)
(* MissedTickBehavior::Skip) and the GeneratorAck / GeneratorLagReader     *)
(* capabilities built around it.                                           *)
(*                                                                         *)
(* Time is discrete.  `tick` holds the distance from the current instant   *)
(* to the deadline of the Interval (deadline - now): the timer has fired   *)
(* exactly when tick <= 0.  The Interval is created with its first         *)
(* deadline at the instant of construction, and every deadline it computes *)
(* lies on the grid start + k * Period.                                    *)
(***************************************************************************)
EXTENDS Integers, Sequences, FiniteSets, TLC

\* ---------------------------------------------------------------- bounds
MaxRpu == 3
MaxBatch == 2
Period == 2
MaxLate == 5
MaxHist == 4
MaxAckLen == 2
MaxClock == 1

Offsets == {"offset1"}

\* the (rpu, batch) pairs of test_stream_generator and test_generator_read
TestConfigs == {<<10, 6>>, <<10, 5>>}

Configs == ((1..MaxRpu) \X (0..MaxBatch)) \cup TestConfigs

\* the payload of test_stream_generator / test_generator_read
Contents == {"test_data"}

OffsetSeqs == UNION {[1..k -> Offsets] : k \in 0..MaxAckLen}

VARIABLES rpu, batch, used, tick, cfg, pc, ret, hist, delivered, lastFire,
          out, content, msgs, clock, seen, rd

sched == <<rpu, batch, used, tick>>
\* the state of GeneratorRead around the stream: the payload template, the
\* Messages returned by the last read(), the last reading of the wall clock,
\* the MessageID of the latest Message returned by earlier reads (a set of at
\* most one id: the clock never goes back, so a new id that equals any older
\* one equals that one too) and the outcome of the last read()
rdvars == <<content, msgs, clock, seen, rd>>
vars == <<rpu, batch, used, tick, cfg, pc, ret, hist, delivered, lastFire,
          out, content, msgs, clock, seen, rd>>

\* ------------------------------------------------------- pure operators
Min(a, b) == IF a < b THEN a ELSE b

ClampNone(b, r) == b
\* StreamGenerator::new: `batch: if batch > rpu { rpu } else { batch }`
ClampBatch(b, r) == IF b > r THEN r ELSE b

NextDeadlineBurst(late) == Period - late
\* Interval::poll_tick under MissedTickBehavior::Skip, for a poll made `late`
\* time units after the deadline: the next deadline is the first grid point
\* after the current instant (result: new deadline - now).
NextDeadline(late) == Period - (late % Period)

\* number of deadlines of the grid that have elapsed when deadline - now = t
Missed(t) == IF t <= 0 THEN ((-t) \div Period) + 1 ELSE 0

\* position of the current instant inside its grid window, 0 at a boundary
Phase(t) == IF t <= 0 THEN (-t) % Period ELSE (Period - t) % Period

ReadyDataShort(b) == IF b > 0 THEN b - 1 ELSE b + 1
\* Ready arm: `vec![this.content.clone(); *this.batch]` (its length)
ReadyData(b) == b

ReadyUsedZero(b) == 0
\* Ready arm: `*this.used = *this.batch`
ReadyUsed(b) == b

HasQuotaInclusive(u, r) == u <= r
\* Pending arm: `if this.used < this.rpu`
HasQuota(u, r) == u < r

ToSendBatch(r, u, b) == b
\* Pending arm: `std::cmp::min(*this.rpu - *this.used, *this.batch)`
ToSend(r, u, b) == Min(r - u, b)

SizeHintUsed(r, u) == <<u, r>>
\* Stream::size_hint: `(self.rpu - self.used, Some(self.rpu))`
SizeHint(r, u) == <<r - u, r>>

AckStrict(offsets) ==
  IF \E i, j \in DOMAIN offsets : i # j /\ offsets[i] = offsets[j]
  THEN "Err" ELSE "Ok"
\* GeneratorAck::ack: `Ok(())`
AckResult(offsets) == "Ok"

PendingZero == [res |-> "Ok", value |-> "Some(0)"]
\* GeneratorLagReader::pending: `Ok(None)`
PendingResult == [res |-> "Ok", value |-> "None"]

Range(s) == {s[i] : i \in DOMAIN s}

\* the process-wide identifiers read by get_vertex_name / get_vertex_replica
VertexName == "vertex"
VertexReplica == 0

DigitChars == <<"0", "1", "2", "3", "4", "5", "6", "7", "8", "9">>

RECURSIVE Digits(_)
\* `.to_string()` of a non-negative integer: its decimal digits
Digits(t) ==
  IF t < 10 THEN <<DigitChars[t + 1]>>
  ELSE Append(Digits(t \div 10), DigitChars[(t % 10) + 1])

\* `chrono::Utc::now().timestamp_nanos_opt().unwrap_or_default().to_string()`
\* for a reading t of the wall clock
TimestampId(t) == Digits(t)

\* `StringOffset::new(id, partition)`
StringOffsetNew(v, p) == [value |-> v, partition |-> p]

\* `offset.to_string()`: the string encoding of a string offset
OffsetToString(o) == o.value \o <<"-">> \o Digits(o.partition)

MakeMessageRawId(c, t) ==
  LET id == TimestampId(t)
      offset == StringOffsetNew(id, VertexReplica)
  IN [keys |-> <<>>, value |-> c, offset |-> offset,
      event_time |-> "default",
      id |-> [vertex_name |-> VertexName, offset |-> id, index |-> 0],
      headers |-> <<>>]
\* the closure of GeneratorRead::read that wraps one payload into a Message
MakeMessage(c, t) ==
  LET id == TimestampId(t)
      offset == StringOffsetNew(id, VertexReplica)
  IN [keys |-> <<>>, value |-> c, offset |-> offset,
      event_time |-> "default",
      id |-> [vertex_name |-> VertexName, offset |-> OffsetToString(offset),
              index |-> 0],
      headers |-> <<>>]

RECURSIVE Stamps(_, _)
\* the readings a non-decreasing wall clock can give to n successive calls of
\* `Utc::now()` when its last reading was c
Stamps(n, c) ==
  IF n = 0 THEN {<<>>}
  ELSE UNION {{<<t>> \o s : s \in Stamps(n - 1, t)} : t \in c..MaxClock}

ReadOutcomeLenient(kind, n) == "Ok"
ReadOutcomeEmptyFatal(kind, n) ==
  IF kind = "end" \/ n = 0 THEN "panic" ELSE "Ok"
\* the match of GeneratorRead::read on the item of the stream:
\* `None => panic!(..)`, `Some(data) => Ok(..)`
ReadOutcome(kind, n) == IF kind = "end" THEN "panic" ELSE "Ok"

\* `todo!()`
PartitionsResult == "panic"

\* what the stream answers to `.next()`: `None` or `Some(data)`
StreamItems ==
  {[kind |-> "end", n |-> 0]} \cup
  {[kind |-> "batch", n |-> k] : k \in 0..MaxBatch}


NoRet == [kind |-> "none", n |-> 0, usedBefore |-> 0, missed |-> 0,
          flip |-> FALSE]
NoOut == [op |-> "none"]

Record(h, e) == IF Len(h) < MaxHist THEN Append(h, e) ELSE h

\* ------------------------------------------------------------ the system
\* StreamGenerator::new (through GeneratorRead::new / new_generator)
Init ==
  /\ cfg \in {[rpu |-> c[1], batch |-> c[2]] : c \in Configs}
  /\ rpu = cfg.rpu
  /\ batch = ClampBatch(cfg.batch, cfg.rpu)
  /\ used = 0
  /\ tick = 0
  /\ pc = "idle"
  /\ ret = NoRet
  /\ hist = <<>>
  /\ delivered = 0
  /\ lastFire = 0
  /\ out = NoOut
  /\ content \in Contents
  /\ msgs = <<>>
  /\ clock = 0
  /\ seen = {}
  /\ rd = "none"

\* one poll of StreamGenerator::poll_next
PollNext ==
  LET before == [usedBefore |-> used, missed |-> Missed(tick),
                 flip |-> ~ret.flip]
  IN
  /\ out' = NoOut
  /\ UNCHANGED <<rpu, batch, cfg>>
  /\ IF tick <= 0
     THEN \* Poll::Ready(_) of poll_tick
          LET data == ReadyData(batch) IN
          /\ used' = ReadyUsed(batch)
          /\ tick' = NextDeadline(-tick)
          /\ pc' = "idle"
          /\ ret' = before @@ [kind |-> "batch", n |-> data]
          /\ hist' = Record(hist, [kind |-> "batch", n |-> data,
                                   fired |-> TRUE])
          /\ delivered' = delivered + data
          /\ lastFire' = Missed(tick)
     ELSE IF HasQuota(used, rpu)
     THEN LET to_send == ToSend(rpu, used, batch) IN
          /\ used' = used + to_send
          /\ pc' = "idle"
          /\ ret' = before @@ [kind |-> "batch", n |-> to_send]
          /\ hist' = Record(hist, [kind |-> "batch", n |-> to_send,
                                   fired |-> FALSE])
          /\ delivered' = delivered + to_send
          /\ UNCHANGED <<tick, lastFire>>
     ELSE \* Poll::Pending: the task parks until the timer wakes it
          /\ pc' = "parked"
          /\ ret' = before @@ [kind |-> "suspend", n |-> 0]
          /\ hist' = Record(hist, [kind |-> "suspend", n |-> 0,
                                   fired |-> FALSE])
          /\ UNCHANGED <<used, tick, delivered, lastFire>>

\* the driver calls `.next().await`
Call ==
  /\ pc = "idle"
  /\ PollNext
  /\ UNCHANGED rdvars

\* the timer wakes the parked task, which polls again
Resume ==
  /\ pc = "parked"
  /\ tick <= 0
  /\ PollNext
  /\ UNCHANGED rdvars

\* the driver drops the pending `.next()` future
Cancel ==
  /\ pc = "parked"
  /\ pc' = "idle"
  /\ UNCHANGED <<rpu, batch, used, tick, cfg, ret, hist, delivered, lastFire,
                 out>>
  /\ UNCHANGED rdvars

\* one time unit passes
Advance ==
  /\ tick > -MaxLate
  /\ tick' = tick - 1
  /\ delivered' = IF Phase(tick - 1) = 0 THEN 0 ELSE delivered
  /\ UNCHANGED <<rpu, batch, used, cfg, pc, ret, hist, lastFire, out>>
  /\ UNCHANGED rdvars

\* Stream::size_hint, called between two `.next()` calls
QuerySizeHint ==
  /\ pc = "idle"
  /\ out' = [op |-> "size_hint", hint |-> SizeHint(rpu, used)]
  /\ UNCHANGED <<rpu, batch, used, tick, cfg, pc, ret, hist, delivered,
                 lastFire>>
  /\ UNCHANGED rdvars

\* GeneratorAck::ack
Ack ==
  \E offsets \in OffsetSeqs :
    /\ out' = [op |-> "ack", offsets |-> offsets,
               res |-> AckResult(offsets),
               again |-> out.op = "ack" /\ Range(out.offsets) \cap Range(offsets) # {}]
    /\ UNCHANGED <<rpu, batch, used, tick, cfg, pc, ret, hist, delivered,
                   lastFire>>
    /\ UNCHANGED rdvars

\* GeneratorLagReader::pending
Pending ==
  /\ out' = [op |-> "pending"] @@ PendingResult
  /\ UNCHANGED <<rpu, batch, used, tick, cfg, pc, ret, hist, delivered,
                 lastFire>>
  /\ UNCHANGED rdvars

Next ==
  \/ Call
  \/ Resume
  \/ Cancel
  \/ Advance
  \/ QuerySizeHint
  \/ Ack
  \/ Pending

Spec == Init /\ [][Next]_vars

\* The reading task alone: the driver keeps awaiting its call; time passes
\* and the timer wakes the parked task.
NextAwait ==
  \/ Call
  \/ Resume
  \/ Advance

LiveSpec == Init /\ [][NextAwait]_vars /\ WF_vars(Advance) /\ WF_vars(Resume)

\* the part of GeneratorRead::read after `.next().await`, for an answer of
\* the stream of the given kind with n payloads
Wrap(kind, n) ==
  /\ content' = content
  /\ IF kind = "suspend"
     THEN UNCHANGED <<msgs, clock, seen, rd>>
     ELSE /\ rd' = ReadOutcome(kind, n)
          /\ IF rd' = "Ok"
             THEN \E st \in Stamps(IF kind = "batch" THEN n ELSE 0, clock) :
                    /\ msgs' = [i \in 1..Len(st) |->
                                  MakeMessage(content, st[i])]
                    /\ clock' = IF st = <<>> THEN clock ELSE st[Len(st)]
                    /\ seen' = IF msgs = <<>> THEN seen
                               ELSE {msgs[Len(msgs)].id}
             ELSE UNCHANGED <<msgs, clock, seen>>

\* GeneratorRead::read
Read ==
  /\ pc = "idle"
  /\ PollNext
  /\ Wrap(ret'.kind, ret'.n)

\* the timer wakes the task parked inside read()
ReadResume ==
  /\ pc = "parked"
  /\ tick <= 0
  /\ PollNext
  /\ Wrap(ret'.kind, ret'.n)

\* GeneratorRead::partitions
Partitions ==
  /\ pc = "idle"
  /\ out' = [op |-> "partitions", res |-> PartitionsResult]
  /\ pc' = IF PartitionsResult = "panic" THEN "aborted" ELSE pc
  /\ UNCHANGED <<rpu, batch, used, tick, cfg, ret, hist, delivered,
                 lastFire>>
  /\ UNCHANGED rdvars

\* The Reader: a task that calls read() and partitions() and may drop a
\* parked read.
ReadNext ==
  \/ Read
  \/ ReadResume
  \/ Cancel
  \/ Advance
  \/ Partitions

\* GeneratorRead::new, for the small quotas and for the quota and batch of
\* test_generator_read
ReadInit ==
  /\ Init
  /\ (cfg.rpu <= MaxRpu \/ cfg = [rpu |-> 10, batch |-> 5])

ReadSpec == ReadInit /\ [][ReadNext]_vars

\* The Reader driven forever: read() is called again and again, time passes
\* and the timer wakes the parked task.
ReadAwait ==
  \/ Read
  \/ ReadResume
  \/ Advance

\* GeneratorRead::new, for the small quotas
ReadLiveInit ==
  /\ Init
  /\ cfg.rpu <= MaxRpu

ReadLiveSpec ==
  /\ ReadLiveInit
  /\ [][ReadAwait]_vars
  /\ WF_vars(Read)
  /\ WF_vars(ReadResume)
  /\ WF_vars(Advance)

\* GeneratorRead::read over a stream that may answer anything, the end of
\* the stream included
ReadAny ==
  /\ pc = "idle"
  /\ \E item \in StreamItems :
       /\ ret' = [kind |-> item.kind, n |-> item.n, usedBefore |-> used,
                  missed |-> 0, flip |-> ~ret.flip]
       /\ Wrap(item.kind, item.n)
  /\ pc' = IF rd' = "panic" THEN "aborted" ELSE "idle"
  /\ UNCHANGED <<rpu, batch, used, tick, cfg, hist, delivered, lastFire,
                 out>>

MatchSpec == Init /\ [][ReadAny]_vars

TypeOK ==
  /\ rpu \in Nat /\ batch \in Nat /\ used \in Nat
  /\ tick \in (-MaxLate)..Period
  /\ pc \in {"idle", "parked", "aborted"}
  /\ Len(hist) <= MaxHist
  /\ clock \in 0..MaxClock
  /\ rd \in {"none", "Ok", "panic"}

\* ------------------------------------------------------------ properties
IsBatch(r) == r.kind = "batch"
Boundary(r) == r.kind = "batch" /\ r.missed >= 1
MidWindow(r) == r.kind # "none" /\ r.missed = 0
Polled == ret'.flip # ret.flip

RECURSIVE WindowTotal(_, _)
\* records delivered by the calls h[1..i] since the last call that observed a
\* firing of the timer, that call included
WindowTotal(h, i) ==
  IF i = 0 THEN 0
  ELSE IF h[i].fired THEN h[i].n
  ELSE h[i].n + WindowTotal(h, i - 1)

\* C1: in every window of the timer (from one boundary of the grid to the
\* next) the records delivered so far never exceed rpu, whatever the
\* interleaving of calls and time.
C1_WindowQuota == delivered <= rpu

\* a call that came several windows late, followed by calls that drained the
\* whole quota of the window
C1_Witness ==
  /\ delivered = rpu
  /\ lastFire >= 2
  /\ cfg.batch > rpu
  /\ Len(hist) >= 2

\* C2: every call either suspends or returns a batch that is non-empty, holds
\* at most the configured batch and, mid-window, at most the quota that was
\* left before the call.
C2_NonEmptyBatch ==
  IsBatch(ret) =>
    /\ ret.n >= 1
    /\ ret.n <= cfg.batch
    /\ (ret.missed = 0 => ret.n <= rpu - ret.usedBefore)

\* C3: a call that observes the timer after two or more boundaries have
\* elapsed delivers exactly batch records, sets used = batch and leaves the
\* timer unfired until the next boundary of the grid (one firing for all the
\* missed ones); the window it opens never carries more than rpu records.
C3_SkippedWindows ==
  /\ [](lastFire >= 2 => (delivered <= rpu /\ used <= rpu))
  /\ [][(Polled /\ IsBatch(ret') /\ ret'.missed >= 2) =>
          (/\ ret'.n = batch
           /\ used' = batch
           /\ delivered' = batch
           /\ tick' \in 1..Period)]_vars

\* three boundaries elapsed unobserved, then the window was drained
C3_Witness ==
  /\ lastFire >= 3
  /\ IsBatch(ret) /\ ret.missed = 0 /\ ret.n >= 1
  /\ delivered = rpu

\* C4: a call that observes a fired timer delivers exactly batch records and
\* leaves used = batch, whatever used was before.
C4_Boundary == Boundary(ret) => (ret.n = batch /\ used = batch)

\* the previous window had quota left (0 < used < rpu) and it is forfeited
C4_Witness ==
  /\ Boundary(ret)
  /\ 0 < ret.usedBefore /\ ret.usedBefore < rpu
  /\ ret.usedBefore # batch
  /\ used = batch

\* C5: a call made with the timer unfired and used < rpu returns at once
\* min(rpu - used, batch) records and adds exactly that number to used.
C5_MidWindow ==
  (MidWindow(ret) /\ ret.usedBefore < rpu) =>
    /\ IsBatch(ret)
    /\ pc = "idle"
    /\ ret.n = Min(rpu - ret.usedBefore, batch)
    /\ used = ret.usedBefore + ret.n

\* the remaining quota was smaller than batch and was what the call returned
C5_Witness ==
  /\ IsBatch(ret) /\ ret.missed = 0
  /\ ret.n = rpu - ret.usedBefore
  /\ 0 < ret.n /\ ret.n < batch

\* C6: a call suspends exactly when the timer has not fired and used >= rpu;
\* the task parks only through such a call, and ack() and pending() complete
\* without parking it.
C6_SuspendIff ==
  /\ [](ret.kind # "none" =>
          ((ret.kind = "suspend") <=>
             (ret.missed = 0 /\ ret.usedBefore >= rpu)))
  /\ [][(pc = "idle" /\ pc' = "parked") =>
          (Polled /\ ret'.kind = "suspend")]_vars
  /\ [][(out' # out /\ out'.op \in {"ack", "pending"}) =>
          (pc' = pc /\ out'.res = "Ok")]_vars

\* a call is parked on an exhausted quota while a lag query completes
C6_Witness ==
  /\ pc = "parked"
  /\ ret.kind = "suspend" /\ ret.usedBefore = rpu /\ ret.missed = 0
  /\ out.op = "pending"

\* C7: a call parked on an exhausted quota is resumed once the timer fires,
\* returns exactly batch records with used = batch, and never leaves the
\* parked state before the boundary.
C7_Resumed ==
  /\ (pc = "parked") ~>
       (pc = "idle" /\ Boundary(ret) /\ ret.n = batch /\ used = batch)
  /\ [][(pc = "parked" /\ pc' = "idle") =>
          (tick <= 0 /\ Boundary(ret') /\ ret'.usedBefore >= rpu)]_vars

\* a suspended call followed by the batch of the next boundary
C7_Witness ==
  /\ pc = "idle"
  /\ \E i \in 1..(Len(hist) - 1) :
       /\ hist[i].kind = "suspend"
       /\ hist[i + 1].kind = "batch" /\ hist[i + 1].fired
       /\ hist[i + 1].n = batch
  /\ batch >= 1

\* C8: the first call of a fresh scheduler takes the boundary path and
\* yields batch records; every later call that sees no boundary yields
\* min(rpu - total, batch) records while the total of the window is below
\* rpu and suspends once it is rpu; a call that sees a boundary yields batch
\* again (10/6: 6, 4, suspend, 6; 10/5: 5, 5).
C8_Drain ==
  /\ Len(hist) >= 1 =>
       hist[1] = [kind |-> "batch", n |-> batch, fired |-> TRUE]
  /\ \A i \in 2..Len(hist) :
       LET total == WindowTotal(hist, i - 1) IN
       /\ hist[i].fired => (hist[i].kind = "batch" /\ hist[i].n = batch)
       /\ (~hist[i].fired /\ total < rpu) =>
            (hist[i].kind = "batch" /\ hist[i].n = Min(rpu - total, batch))
       /\ (~hist[i].fired /\ total >= rpu) =>
            (hist[i].kind = "suspend" /\ total = rpu)
  /\ (cfg = [rpu |-> 10, batch |-> 6] /\ Len(hist) >= 3
        /\ ~hist[2].fired /\ ~hist[3].fired) =>
       /\ hist[1].n = 6 /\ hist[2].n = 4 /\ hist[3].kind = "suspend"
       /\ (Len(hist) >= 4 /\ hist[4].kind = "batch") =>
            (hist[4].fired /\ hist[4].n = 6)
  /\ (cfg = [rpu |-> 10, batch |-> 5] /\ Len(hist) >= 2 /\ ~hist[2].fired) =>
       (hist[1].n = 5 /\ hist[2].n = 5)

\* the run of test_stream_generator: 6, 4, suspend, 6
C8_Witness ==
  /\ cfg = [rpu |-> 10, batch |-> 6]
  /\ hist = << [kind |-> "batch", n |-> 6, fired |-> TRUE],
               [kind |-> "batch", n |-> 4, fired |-> FALSE],
               [kind |-> "suspend", n |-> 0, fired |-> FALSE],
               [kind |-> "batch", n |-> 6, fired |-> TRUE] >>

\* C9 (as stated): size_hint right after a delivery of k records reports
\* (0, rpu) when the quota is exhausted and (rpu - k, rpu) otherwise, on the
\* boundary path and on the mid-window path alike.
C9_Original ==
  (out.op = "size_hint" /\ IsBatch(ret)) =>
    out.hint = IF used >= rpu THEN <<0, rpu>> ELSE <<rpu - ret.n, rpu>>

\* C9 (amended): size_hint right after a delivery of k records reports
\* (0, rpu) when the quota is exhausted, (rpu - k, rpu) after a partial
\* delivery on the boundary path, and (rpu - (u + k), rpu) after a partial
\* delivery on the mid-window path that started from used = u.
C9_SizeHint ==
  (out.op = "size_hint" /\ IsBatch(ret)) =>
    out.hint = IF used >= rpu THEN <<0, rpu>>
               ELSE IF ret.missed >= 1 THEN <<rpu - ret.n, rpu>>
               ELSE <<rpu - (ret.usedBefore + ret.n), rpu>>

\* a hint taken after a partial mid-window delivery
C9_Witness ==
  /\ out.op = "size_hint"
  /\ IsBatch(ret) /\ ret.missed = 0
  /\ ret.usedBefore > 0 /\ ret.n > 0
  /\ used < rpu
  /\ out.hint = <<rpu - used, rpu>>

\* C10: ack() returns success for every offset sequence and changes nothing
\* of the scheduler, also while a read is parked.
C10_AckNoOp ==
  /\ [](out.op = "ack" => out.res = "Ok")
  /\ [][(out' # out /\ out'.op = "ack") =>
          UNCHANGED <<rpu, batch, used, tick, cfg, pc, ret, hist,
                      delivered, lastFire>>]_vars

\* a sequence with a duplicate, acknowledged again, while a read is parked
C10_Witness ==
  /\ out.op = "ack" /\ out.res = "Ok"
  /\ out.again
  /\ Len(out.offsets) = 2 /\ out.offsets[1] = out.offsets[2]
  /\ pc = "parked"

\* C11: pending() always succeeds with no value (None, never a count) in
\* every reachable state, and changes nothing of the scheduler.
C11_PendingNone ==
  /\ [](out.op = "pending" => (out.res = "Ok" /\ out.value = "None"))
  /\ [][(out' # out /\ out'.op = "pending") =>
          UNCHANGED <<rpu, batch, used, tick, cfg, pc, ret, hist,
                      delivered, lastFire>>]_vars

\* a lag query answered after a late call drained the whole quota
C11_Witness ==
  /\ out.op = "pending" /\ out.value = "None"
  /\ pc = "idle"
  /\ used = rpu /\ lastFire >= 2
  /\ Len(hist) >= 2

\* C12: partitions() returns the partition indices this instance serves in
\* every state in which it is called, completes normally and never aborts
\* the task.
C12_PartitionsReturns ==
  out.op = "partitions" => (out.res = "Ok" /\ pc # "aborted")

\* C13: any two distinct Messages returned by read() during one run, of the
\* same batch or of different batches, carry different MessageIDs, for
\* every non-decreasing behaviour of the clock.
C13_UniqueIds ==
  /\ \A i, j \in DOMAIN msgs : i # j => msgs[i].id # msgs[j].id
  /\ \A i \in DOMAIN msgs : msgs[i].id \notin seen

\* C14: a call that suspends delivers nothing and leaves used and the rest
\* of the scheduler and reader state unchanged; dropping the parked call
\* changes nothing either; used, the returned Messages and the delivered
\* count change only in a step that returns a whole batch of ret.n records.
C14_Atomic ==
  /\ [](pc = "parked" => (ret.kind = "suspend" /\ used = ret.usedBefore))
  /\ [][(Polled /\ ret'.kind = "suspend") =>
          (/\ pc' = "parked"
           /\ UNCHANGED <<rpu, batch, used, tick, delivered, lastFire,
                          content, msgs, clock, seen, rd>>)]_vars
  /\ [][(pc = "parked" /\ pc' = "idle" /\ ~Polled) =>
          UNCHANGED <<rpu, batch, used, tick, delivered, lastFire, ret,
                      content, msgs, clock, seen, rd>>]_vars
  /\ [][(used' # used \/ msgs' # msgs \/ delivered' > delivered) =>
          (Polled /\ IsBatch(ret'))]_vars
  /\ [][(Polled /\ IsBatch(ret')) =>
          (/\ rd' = "Ok"
           /\ Len(msgs') = ret'.n
           /\ delivered' = delivered + ret'.n
           /\ used' = IF ret'.missed >= 1 THEN ret'.n
                      ELSE used + ret'.n)]_vars

\* a read() parked on an exhausted quota was dropped: the Messages of the
\* previous read() are still the last ones returned
C14_Witness ==
  /\ pc = "idle"
  /\ ret.kind = "suspend"
  /\ rd = "Ok" /\ Len(msgs) >= 1
  /\ used = rpu

\* C15: when the stream answers end-of-stream read() aborts the task and
\* returns nothing; every successful return of read() carries the batch the
\* stream delivered on that call.
C15_EndIsFatal ==
  /\ ret.kind = "end" => (rd = "panic" /\ pc = "aborted")
  /\ rd = "panic" => ret.kind = "end"
  /\ rd = "Ok" =>
       /\ IsBatch(ret)
       /\ Len(msgs) = ret.n
       /\ \A i \in DOMAIN msgs : msgs[i].value = content

\* the stream ended after reads that had returned Messages
C15_Witness ==
  /\ ret.kind = "end"
  /\ rd = "panic" /\ pc = "aborted"
  /\ seen # {} /\ Len(msgs) >= 1

\* C16: read() returns one Message per payload of the batch of the call
\* (batch on the boundary path, min(rpu - used, batch) mid-window); each
\* Message holds the content template, carries an offset, and its
\* MessageID.offset is the string encoding of that offset.
C16_WrapsBatch ==
  (rd = "Ok" /\ IsBatch(ret)) =>
    /\ Len(msgs) = ret.n
    /\ ret.n = IF ret.missed >= 1 THEN batch
               ELSE Min(rpu - ret.usedBefore, batch)
    /\ \A i \in DOMAIN msgs :
         /\ msgs[i].value = content
         /\ "offset" \in DOMAIN msgs[i]
         /\ msgs[i].offset.partition = VertexReplica
         /\ msgs[i].id.offset = OffsetToString(msgs[i].offset)
         /\ msgs[i].id.vertex_name = VertexName

\* the second read() of test_generator_read: rpu - batch = 5 Messages
C16_Witness ==
  /\ cfg = [rpu |-> 10, batch |-> 5]
  /\ rd = "Ok" /\ IsBatch(ret) /\ ret.missed = 0
  /\ Len(msgs) = 5
  /\ seen # {}

\* C17: the batch size of the scheduler is min(configured batch, rpu) from
\* construction on, and no step changes rpu, batch or content.
C17_EffectiveBatch ==
  /\ [](batch = Min(cfg.batch, cfg.rpu) /\ rpu = cfg.rpu)
  /\ [][rpu' = rpu /\ batch' = batch /\ content' = content
          /\ cfg' = cfg]_vars

\* a configured batch above rpu, after calls and a size_hint query
C17_Witness ==
  /\ cfg.batch > cfg.rpu /\ batch = rpu
  /\ Len(hist) >= 3
  /\ out.op = "size_hint"

\* C18: 0 <= used <= rpu in every reachable state; size_hint returns exactly
\* (rpu - used, rpu) with 0 <= lower <= upper and changes no state.
C18_UsedInRange ==
  /\ [](0 <= used /\ used <= rpu)
  /\ [](out.op = "size_hint" =>
          (/\ out.hint = <<rpu - used, rpu>>
           /\ 0 <= out.hint[1] /\ out.hint[1] <= out.hint[2]))
  /\ [][(out' # out /\ out'.op = "size_hint") =>
          UNCHANGED <<rpu, batch, used, tick, cfg, pc, ret, hist,
                      delivered, lastFire>>]_vars

\* the hint of a drained window that was opened by a late call
C18_Witness ==
  /\ out.op = "size_hint"
  /\ used = rpu /\ out.hint = <<0, rpu>>
  /\ lastFire >= 2

RECURSIVE HistTotal(_, _)
\* records delivered by the calls h[1..i]
HistTotal(h, i) == IF i = 0 THEN 0 ELSE h[i].n + HistTotal(h, i - 1)

RECURSIVE HistFires(_, _)
\* firings of the timer observed by the calls h[1..i]
HistFires(h, i) ==
  IF i = 0 THEN 0
  ELSE (IF h[i].fired THEN 1 ELSE 0) + HistFires(h, i - 1)

\* C19: after the calls made so far have observed n firings of the timer,
\* the records delivered since construction are at most n * rpu (none
\* before the first observed firing), whatever the idle time between calls.
C19_RateBound ==
  \A i \in 0..Len(hist) :
    HistTotal(hist, i) <= HistFires(hist, i) * rpu

\* two observed firings, the second after skipped windows, both fully used
C19_Witness ==
  /\ HistFires(hist, Len(hist)) >= 2
  /\ HistTotal(hist, Len(hist)) = HistFires(hist, Len(hist)) * rpu
  /\ lastFire >= 2

\* C20: the stream never answers end-of-stream, so read() never takes its
\* fatal branch; driven forever, read() returns successfully again and
\* again.
C20_NeverEnds ==
  /\ [](ret.kind \in {"none", "batch", "suspend"})
  /\ [](rd # "panic" /\ pc # "aborted")
  /\ []<><<Polled /\ IsBatch(ret') /\ rd' = "Ok">>_vars

\* a read() that had parked on an exhausted quota returned at the boundary,
\* after earlier reads had returned Messages
C20_Witness ==
  /\ rd = "Ok" /\ IsBatch(ret)
  /\ ret.missed >= 1 /\ ret.usedBefore >= rpu
  /\ Len(msgs) >= 1 /\ seen # {}
  /\ Len(hist) = MaxHist

====
